---- MODULE Spec2Model ----
(***************************************************************************)
(* Thunder/__main__.py: the lifecycle orchestrator (start_services), the   *)
(* request executor (request_executor) and the token reaper                *)
(* (schedule_token_cleanup), as one asyncio event loop.                    *)
(*                                                                         *)
(* One action is one run of a coroutine between two suspension points.     *)
(* The admission queue (rate_limiter), the two handlers, the keepalive     *)
(* (ping_server) and the store live outside this file; they are modelled   *)
(* at their interface.                                                     *)
(***************************************************************************)
EXTENDS Integers, Sequences, FiniteSets, TLC

\* ------------------------------------------------------------------ bounds
\* Number of requests producers enqueue in one run.
MaxRequests == 2
\* Number of purge calls the token reaper makes in one run.
MaxPurges == 2
\* Number of flood-wait rejections the API answers to one call.
MaxFloods == 1
\* Number of plugin files glob finds.
MaxPlugins == 2

Ids == 1..MaxRequests

\* ------------------------------------------------------------ request data
\* Python's None, and values of the fields a producer may put in a request.
None == "None"

\* What bool(v) gives for the modelled values: None, 0 and "" are falsy.
Truthy(v) == v \notin {None, "0", ""}

\* A mapping with the four required fields of a request.
Request(h, b, m, u) ==
    [mapping |-> TRUE, handler_type |-> h, bot |-> b, message |-> m, user_id |-> u]

\* An item that is no mapping at all (it has no .get).
NotAMapping ==
    [mapping |-> FALSE, handler_type |-> None, bot |-> None, message |-> None,
     user_id |-> None]

\* The slot of an id under which nothing was enqueued yet.
NoItem ==
    [mapping |-> FALSE, handler_type |-> "", bot |-> "", message |-> "",
     user_id |-> ""]

\* The items producers may enqueue.
RequestShapes ==
    { Request("link", "bot", "msg", "42"),
      Request("private", "bot", "msg", "7"),
      Request("other", "bot", "msg", "42"),
      Request(None, "bot", "msg", "42"),
      Request("link", None, "msg", "42"),
      Request("private", "bot", None, "42"),
      Request("link", "bot", "msg", None),
      Request("private", "bot", "msg", "0"),
      NotAMapping }

\* ------------------------------------------------------------------- state
Tasks == {"keepalive_task", "token_cleanup_task", "request_executor_task"}

VARIABLES
    pc,          \* where start_services is
    phases,      \* startup phases begun, in order
    failed,      \* the startup phase whose failure aborted startup, or "none"
    checkpoint,  \* a restart message record exists in the store
    app_runner,  \* the local app_runner is bound
    listener,    \* "none", "setup", "started", "closed"
    task,        \* state of each background task
    cancelReq,   \* tasks with a cancellation requested and not yet delivered
    queue,       \* ids of the requests in the admission queue, oldest first
    closed,      \* rate_limiter.shutdown() has closed the queue
    requests,    \* the item enqueued under each id (NoItem before it is enqueued)
    status,      \* what became of each request
    calls,       \* handler invocations begun, in order: [id, handler]
    cur,         \* id of the request whose handler the executor awaits (0: none)
    purges,      \* calls of cleanup_expired_tokens made
    ti,          \* position of the shutdown loop in its task list (line 164)
    lastPurge,   \* how the last finished purge ended: "none", "ok", "failed"
    retry,       \* the flood waits of the latest call made through handle_flood_wait
    imp,         \* the locals of import_plugins while it runs
    sdLog        \* the steps of the finally block begun, in order

vars == <<pc, phases, failed, checkpoint, app_runner, listener, task, cancelReq,
          queue, closed, requests, status, calls, cur, purges, ti, lastPurge,
          retry, imp, sdLog>>

\* The locals of handle_flood_wait and import_plugins, and the shutdown log.
frameVars == <<retry, imp, sdLog>>
mainVars == <<pc, phases, failed, checkpoint, app_runner, listener, ti, frameVars>>
queueVars == <<queue, closed, requests, status, calls, cur>>
reaperVars == <<purges, lastPurge>>

\* start_services has returned or raised: run_until_complete returns and the
\* loop is closed, so no task runs any more.
\* No call through handle_flood_wait has been made.
NoRetry == [call |-> "none", floods |-> 0, slept |-> 0, owed |-> 0]

\* import_plugins is not running.
NoImport == [plugins |-> 0, i |-> 0, success_count |-> 0, failed_plugins |-> 0]

LoopStopped == pc \in {"aborted", "returned", "raised"}

TaskDone(t) == task[t] \in {"returned", "cancelled", "error"}

Init ==
    /\ pc = "start"
    /\ phases = <<>>
    /\ failed = "none"
    /\ checkpoint \in BOOLEAN
    /\ app_runner = FALSE
    /\ listener = "none"
    /\ task = [t \in Tasks |-> "none"]
    /\ cancelReq = {}
    /\ queue = <<>>
    /\ closed = FALSE
    /\ requests = [i \in Ids |-> NoItem]
    /\ status = [i \in Ids |-> "none"]
    /\ calls = <<>>
    /\ cur = 0
    /\ purges = 0
    /\ ti = 1
    /\ lastPurge = "none"
    /\ retry = NoRetry
    /\ imp = NoImport
    /\ sdLog = <<>>

\* ----------------------------------------------------- startup (82 - 147)
\* A startup step that succeeds moves on; one that fails logs and returns.
Abort(phase) ==
    /\ pc' = "aborted"
    /\ failed' = phase

\* --------------------------------------- handle_flood_wait (RetryGuard)
\* The retry_after values the API announces with a flood-wait rejection.
RetryAfters == {1, 5}

\* The fixed safety margin added to every wait.
Margin == 1

\* The calls start_services makes through handle_flood_wait (89, 90, 100),
\* named by the position of start_services.
GuardedCalls == {"start", "get_me", "edit_restart"}

\* The record of the call at position c: the one kept so far if it is of
\* this call, a fresh one otherwise.
CallRecord(c) == IF retry.call = c THEN retry ELSE [NoRetry EXCEPT !.call = c]

\* A record with one more rejection of retry_after ra, waited for w.
Rejected(r, ra, w) ==
    [r EXCEPT !.floods = @ + 1, !.owed = @ + ra, !.slept = @ + w]

\* The call is rejected with a flood wait: handle_flood_wait sleeps for
\* retry_after plus the margin and calls again; its caller stays suspended.
FloodWait ==
    /\ pc \in GuardedCalls
    /\ CallRecord(pc).floods < MaxFloods
    /\ \E ra \in RetryAfters :
          retry' = Rejected(CallRecord(pc), ra, ra + Margin)
    /\ UNCHANGED <<pc, phases, failed, checkpoint, app_runner, listener, ti, imp,
                   sdLog, task, cancelReq, queueVars, reaperVars>>

\* line 89 with StreamBot.start called directly: a flood-wait rejection
\* reaches the except clause at 112.
StartBot_Unguarded ==
    /\ pc = "start"
    /\ phases' = Append(phases, "auth")
    /\ \/ /\ retry' = CallRecord(pc)
          /\ \E ok \in BOOLEAN :
                IF ok THEN pc' = "get_me" /\ failed' = failed ELSE Abort("auth")
       \/ /\ \E ra \in RetryAfters : retry' = Rejected(CallRecord(pc), ra, 0)
          /\ Abort("auth")
    /\ UNCHANGED <<checkpoint, app_runner, listener, task, cancelReq, queueVars,
                   reaperVars, ti, imp, sdLog>>

\* line 89: await handle_flood_wait(StreamBot.start) returns, or raises an
\* error that is no flood wait.
StartBot ==
    /\ pc = "start"
    /\ phases' = Append(phases, "auth")
    /\ retry' = CallRecord(pc)
    /\ \E ok \in BOOLEAN :
          IF ok THEN pc' = "get_me" /\ failed' = failed ELSE Abort("auth")
    /\ UNCHANGED <<checkpoint, app_runner, listener, task, cancelReq, queueVars,
                   reaperVars, ti, imp, sdLog>>

\* lines 90-92: bot_info = await handle_flood_wait(StreamBot.get_me)
GetMe ==
    /\ pc = "get_me"
    /\ phases' = Append(phases, "identity")
    /\ \E ok \in BOOLEAN :
          IF ok THEN pc' = "set_commands" /\ failed' = failed ELSE Abort("identity")
    /\ retry' = CallRecord(pc)
    /\ UNCHANGED <<checkpoint, app_runner, listener, task, cancelReq, queueVars,
                   reaperVars, ti, imp, sdLog>>

\* lines 94-95: await set_commands()
SetCommands ==
    /\ pc = "set_commands"
    /\ phases' = Append(phases, "commands")
    /\ \E ok \in BOOLEAN :
          IF ok THEN pc' = "get_restart" /\ failed' = failed ELSE Abort("commands")
    /\ UNCHANGED <<checkpoint, app_runner, listener, task, cancelReq, queueVars, reaperVars, ti, frameVars>>

\* lines 97-98, 109-114: restart_message_data = await db.get_restart_message()
\* The read is inside the outer try only: its failure returns at line 114.
GetRestartMessage ==
    /\ pc = "get_restart"
    /\ phases' = Append(phases, "checkpoint")
    /\ \E ok \in BOOLEAN :
          IF ok
          THEN /\ pc' = IF checkpoint THEN "edit_restart" ELSE "init_clients"
               /\ failed' = failed
          ELSE Abort("checkpoint")
    /\ UNCHANGED <<checkpoint, app_runner, listener, task, cancelReq, queueVars, reaperVars, ti, frameVars>>

\* lines 99-105, 107-108: edit the restart message; a failure skips the delete.
EditRestartMessage ==
    /\ pc = "edit_restart"
    /\ \E ok \in BOOLEAN :
          pc' = IF ok THEN "delete_restart" ELSE "init_clients"
    /\ retry' = CallRecord(pc)
    /\ UNCHANGED <<phases, failed, checkpoint, app_runner, listener, task,
                   cancelReq, queueVars, reaperVars, ti, imp, sdLog>>

\* lines 106-108: await db.delete_restart_message(...)
DeleteRestartMessage ==
    /\ pc = "delete_restart"
    /\ \E ok \in BOOLEAN :
          checkpoint' = IF ok THEN FALSE ELSE checkpoint
    /\ pc' = "init_clients"
    /\ UNCHANGED <<phases, failed, app_runner, listener, task, cancelReq,
                   queueVars, reaperVars, ti, frameVars>>

\* lines 116-121 with the failure of initialize_clients ignored.
InitClients_Ignored ==
    /\ pc = "init_clients"
    /\ phases' = Append(phases, "clients")
    /\ \E ok \in BOOLEAN :
          /\ pc' = "import_plugins"
          /\ failed' = IF ok THEN failed ELSE "clients"
    /\ retry' = NoRetry
    /\ UNCHANGED <<checkpoint, app_runner, listener, task, cancelReq, queueVars,
                   reaperVars, ti, imp, sdLog>>

\* lines 116-121: await initialize_clients().  No call through
\* handle_flood_wait follows, and the record of the last one is dropped.
InitClients ==
    /\ pc = "init_clients"
    /\ phases' = Append(phases, "clients")
    /\ \E ok \in BOOLEAN :
          IF ok THEN pc' = "import_plugins" /\ failed' = failed ELSE Abort("clients")
    /\ retry' = NoRetry
    /\ UNCHANGED <<checkpoint, app_runner, listener, task, cancelReq, queueVars,
                   reaperVars, ti, imp, sdLog>>

\* ------------------------------------------------ import_plugins (44 - 80)
\* lines 123, 44-52: import_plugins globs the plugin files; with none found
\* it returns 0 at once.
ImportPlugins ==
    /\ pc = "import_plugins"
    /\ phases' = Append(phases, "plugins")
    /\ \E n \in 0..MaxPlugins :
          IF n = 0
          THEN pc' = "create_executor" /\ imp' = NoImport
          ELSE pc' = "import_loop" /\ imp' = [NoImport EXCEPT !.plugins = n]
    /\ UNCHANGED <<failed, checkpoint, app_runner, listener, task, cancelReq,
                   queueVars, reaperVars, ti, retry, sdLog>>

\* lines 54-74 with no except clause: a plugin that raises ends import_plugins
\* and, line 123 being outside any try, start_services.
ImportOne_Raises ==
    /\ pc = "import_loop"
    /\ imp.i < imp.plugins
    /\ \E outcome \in {"loaded", "no_spec", "raises"} :
          /\ imp' = [imp EXCEPT
                       !.i = @ + 1,
                       !.success_count = IF outcome = "loaded" THEN @ + 1 ELSE @,
                       !.failed_plugins = IF outcome = "no_spec" THEN @ + 1 ELSE @]
          /\ pc' = IF outcome = "raises" THEN "raised" ELSE pc
    /\ UNCHANGED <<phases, failed, checkpoint, app_runner, listener, task,
                   cancelReq, queueVars, reaperVars, ti, retry, sdLog>>

\* lines 54-74: one plugin file.  It is loaded (69), has no usable spec
\* (61-64) or raises while loading (71-74); the last two count as failed.
ImportOne ==
    /\ pc = "import_loop"
    /\ imp.i < imp.plugins
    /\ \E outcome \in {"loaded", "no_spec", "raises"} :
          imp' = [imp EXCEPT
                    !.i = @ + 1,
                    !.success_count = IF outcome = "loaded" THEN @ + 1 ELSE @,
                    !.failed_plugins = IF outcome = "loaded" THEN @ ELSE @ + 1]
    /\ UNCHANGED <<pc, phases, failed, checkpoint, app_runner, listener, task,
                   cancelReq, queueVars, reaperVars, ti, retry, sdLog>>

\* lines 76-80, 123: the loop is over; import_plugins returns success_count,
\* which start_services does not use.
ImportReturn ==
    /\ pc = "import_loop"
    /\ imp.i = imp.plugins
    /\ pc' = "create_executor"
    /\ imp' = NoImport
    /\ UNCHANGED <<phases, failed, checkpoint, app_runner, listener, task,
                   cancelReq, queueVars, reaperVars, ti, retry, sdLog>>

\* lines 125-131: request_executor_task = asyncio.create_task(request_executor())
\* The task runs to its first suspension (the queue wait) once start_services
\* suspends.
CreateExecutor ==
    /\ pc = "create_executor"
    /\ phases' = Append(phases, "executor")
    /\ task' = [task EXCEPT !["request_executor_task"] = "waiting"]
    /\ pc' = "web_runner"
    /\ UNCHANGED <<failed, checkpoint, app_runner, listener, cancelReq, queueVars, reaperVars, ti, frameVars>>

\* lines 133-135, 145-147: app_runner = web.AppRunner(await web_server())
WebRunner ==
    /\ pc = "web_runner"
    /\ phases' = Append(phases, "listener")
    /\ \E ok \in BOOLEAN :
          IF ok
          THEN pc' = "web_setup" /\ app_runner' = TRUE /\ failed' = failed
          ELSE Abort("listener") /\ app_runner' = app_runner
    /\ UNCHANGED <<checkpoint, listener, task, cancelReq, queueVars, reaperVars, ti, frameVars>>

\* lines 136, 145-147: await app_runner.setup()
WebSetup ==
    /\ pc = "web_setup"
    /\ \E ok \in BOOLEAN :
          IF ok
          THEN pc' = "site_start" /\ listener' = "setup" /\ failed' = failed
          ELSE Abort("listener") /\ listener' = listener
    /\ UNCHANGED <<phases, checkpoint, app_runner, task, cancelReq, queueVars, reaperVars, ti, frameVars>>

\* lines 137-139, 145-147: site = web.TCPSite(...); await site.start()
SiteStart ==
    /\ pc = "site_start"
    /\ \E ok \in BOOLEAN :
          IF ok
          THEN pc' = "create_tasks" /\ listener' = "started" /\ failed' = failed
          ELSE Abort("listener") /\ listener' = listener
    /\ UNCHANGED <<phases, checkpoint, app_runner, task, cancelReq, queueVars, reaperVars, ti, frameVars>>

\* lines 141-143: the keepalive and token cleanup tasks are created, then
\* lines 149-160 run up to await idle().
CreateTasks ==
    /\ pc = "create_tasks"
    /\ phases' = phases \o <<"keepalive", "reaper">>
    /\ task' = [task EXCEPT !["keepalive_task"] = "running",
                            !["token_cleanup_task"] = "sleep"]
    /\ pc' = "idle"
    /\ UNCHANGED <<failed, checkpoint, app_runner, listener, cancelReq, queueVars, reaperVars, ti, frameVars>>

\* ---------------------------------------------- admission queue (producers)
\* rate_limiter's enqueue: appends to the tail; rejected once the queue is
\* closed.  Handlers are registered from bot start on, so producers run from
\* then until the loop stops.  import_plugins never suspends, so nothing
\* else runs while it does.
Enqueue ==
    /\ ~LoopStopped
    /\ pc \notin {"start", "import_loop"}
    /\ ~closed
    /\ \E id \in Ids, req \in RequestShapes :
          /\ status[id] = "none"
          /\ \A j \in Ids : j < id => status[j] # "none"
          /\ requests' = [requests EXCEPT ![id] = req]
          /\ status' = [status EXCEPT ![id] = "queued"]
          /\ queue' = Append(queue, id)
    /\ UNCHANGED <<mainVars, task, cancelReq, closed, calls, cur, reaperVars>>

\* rate_limiter.queue_consumer: the item the consumer sequence yields next is
\* the oldest one in the queue.
NextDelivered(q) == Head(q)

\* ------------------------------------------- request_executor (199 - 226)
\* request_data.get works (lines 203-207, 226).
IsMapping(req) == req.mapping

\* line 209: all([handler_type, bot, message, user_id])
AllPresent(req) ==
    /\ Truthy(req.handler_type)
    /\ Truthy(req.bot)
    /\ Truthy(req.message)
    /\ Truthy(req.user_id)

\* lines 215-220 with the two branches exchanged.
HandlerFor_Swapped(handler_type) ==
    IF handler_type = "private" THEN "link_handler"
    ELSE IF handler_type = "link" THEN "private_receive_handler"
    ELSE "none"

\* lines 215-220 with the else branch falling back to link_handler.
HandlerFor_Default(handler_type) ==
    IF handler_type = "private" THEN "private_receive_handler"
    ELSE "link_handler"

\* lines 215-220: the handler a handler_type selects.
HandlerFor(handler_type) ==
    IF handler_type = "private" THEN "private_receive_handler"
    ELSE IF handler_type = "link" THEN "link_handler"
    ELSE "none"

\* lines 216, 218 with the handler started and not awaited.
Dispatch_NoAwait(id, h) ==
    /\ calls' = Append(calls, [id |-> id, handler |-> h])
    /\ status' = [status EXCEPT ![id] = "inflight"]
    /\ UNCHANGED <<task, cur>>

\* lines 216, 218: await handler(bot, message, **kwargs): the handler starts
\* and the executor is suspended until it returns or raises.
Dispatch(id, h) ==
    /\ calls' = Append(calls, [id |-> id, handler |-> h])
    /\ status' = [status EXCEPT ![id] = "inflight"]
    /\ task' = [task EXCEPT !["request_executor_task"] = "handling"]
    /\ cur' = id

\* lines 201-220, 225-226: the consumer delivers the oldest request and the
\* loop body runs up to its next suspension.
ExecNext ==
    /\ ~LoopStopped
    /\ task["request_executor_task"] = "waiting"
    /\ "request_executor_task" \notin cancelReq
    /\ queue # <<>>
    /\ LET id == NextDelivered(queue)
           req == requests[id]
       IN  /\ queue' = Tail(queue)
           /\ IF ~IsMapping(req)
              THEN \* .get raises at 203, is caught at 225, and raises again
                   \* at 226 inside the except clause: the coroutine ends.
                   /\ status' = [status EXCEPT ![id] = "crashed"]
                   /\ task' = [task EXCEPT !["request_executor_task"] = "error"]
                   /\ UNCHANGED <<calls, cur>>
              ELSE IF ~AllPresent(req)
              THEN /\ status' = [status EXCEPT ![id] = "skipped"]
                   /\ UNCHANGED <<task, calls, cur>>
              ELSE IF HandlerFor(req.handler_type) = "none"
              THEN /\ status' = [status EXCEPT ![id] = "unknown"]
                   /\ UNCHANGED <<task, calls, cur>>
              ELSE Dispatch(id, HandlerFor(req.handler_type))
    /\ UNCHANGED <<mainVars, cancelReq, closed, requests, reaperVars>>

\* The executor resumes after the handler it awaits has ended.
Resume(id, to) ==
    IF cur = id /\ task["request_executor_task"] = "handling"
    THEN /\ task' = [task EXCEPT !["request_executor_task"] = to]
         /\ cur' = 0
    ELSE UNCHANGED <<task, cur>>

\* A handler with a cancellation pending on the task awaiting it receives the
\* cancellation at its suspension point instead of going on.
MayProceed(id) == ~(id = cur /\ "request_executor_task" \in cancelReq)

\* lines 216, 218, 201: the handler returns; the loop asks for the next item.
HandlerReturn ==
    /\ ~LoopStopped
    /\ \E id \in Ids :
          /\ status[id] = "inflight"
          /\ MayProceed(id)
          /\ status' = [status EXCEPT ![id] = "completed"]
          /\ Resume(id, "waiting")
    /\ UNCHANGED <<mainVars, cancelReq, queue, closed, requests, calls, reaperVars>>

\* lines 225-226 with the failed request put back on the queue.
HandlerRaise_Requeue ==
    /\ ~LoopStopped
    /\ \E id \in Ids :
          /\ status[id] = "inflight"
          /\ MayProceed(id)
          /\ status' = [status EXCEPT ![id] = "queued"]
          /\ queue' = Append(queue, id)
          /\ Resume(id, "waiting")
    /\ UNCHANGED <<mainVars, cancelReq, closed, requests, calls, reaperVars>>

\* lines 222-226 without the except Exception clause.
HandlerRaise_Propagates ==
    /\ ~LoopStopped
    /\ \E id \in Ids, exc \in {"Exception", "CancelledError"} :
          /\ status[id] = "inflight"
          /\ MayProceed(id)
          /\ IF exc = "Exception"
             THEN /\ status' = [status EXCEPT ![id] = "raised"]
                  /\ Resume(id, "error")
             ELSE /\ status' = [status EXCEPT ![id] = "handler_cancelled"]
                  /\ Resume(id, "returned")
    /\ UNCHANGED <<mainVars, cancelReq, queue, closed, requests, calls, reaperVars>>

\* lines 222-226: the handler raises.  An Exception is logged and the loop
\* goes on; a CancelledError the handler raises itself is caught by the
\* clause at 222 like a cancellation of the task, and the loop breaks.
HandlerRaise ==
    /\ ~LoopStopped
    /\ \E id \in Ids, exc \in {"Exception", "CancelledError"} :
          /\ status[id] = "inflight"
          /\ MayProceed(id)
          /\ IF exc = "Exception"
             THEN /\ status' = [status EXCEPT ![id] = "raised"]
                  /\ Resume(id, "waiting")
             ELSE /\ status' = [status EXCEPT ![id] = "handler_cancelled"]
                  /\ Resume(id, "returned")
    /\ UNCHANGED <<mainVars, cancelReq, queue, closed, requests, calls, reaperVars>>

\* lines 201, 222-224: the cancellation reaches the executor where it is
\* suspended.  In the queue wait (outside the try) CancelledError leaves the
\* coroutine; in a handler it is thrown into the handler, comes out of the
\* await at 216/218, and the clause at 222 breaks the loop.
ExecCancelled ==
    /\ ~LoopStopped
    /\ "request_executor_task" \in cancelReq
    /\ task["request_executor_task"] \in {"waiting", "handling"}
    /\ cancelReq' = cancelReq \ {"request_executor_task"}
    /\ IF task["request_executor_task"] = "waiting"
       THEN /\ task' = [task EXCEPT !["request_executor_task"] = "cancelled"]
            /\ UNCHANGED <<status, cur>>
       ELSE /\ task' = [task EXCEPT !["request_executor_task"] = "returned"]
            /\ status' = [status EXCEPT ![cur] = "interrupted"]
            /\ cur' = 0
    /\ UNCHANGED <<mainVars, queue, closed, requests, calls, reaperVars>>

\* --------------------------------------- schedule_token_cleanup (188 - 197)
\* line 191-192: the sleep ends and cleanup_expired_tokens is called.
ReaperWake ==
    /\ ~LoopStopped
    /\ task["token_cleanup_task"] = "sleep"
    /\ "token_cleanup_task" \notin cancelReq
    /\ purges < MaxPurges
    /\ purges' = purges + 1
    /\ task' = [task EXCEPT !["token_cleanup_task"] = "purge"]
    /\ UNCHANGED <<mainVars, cancelReq, queueVars, lastPurge>>

\* lines 192, 196-197 with a failed purge called again at once.
PurgeDone_Retry ==
    /\ ~LoopStopped
    /\ task["token_cleanup_task"] = "purge"
    /\ "token_cleanup_task" \notin cancelReq
    /\ \E ok \in BOOLEAN :
          /\ lastPurge' = IF ok THEN "ok" ELSE "failed"
          /\ IF ok \/ purges >= MaxPurges
             THEN /\ task' = [task EXCEPT !["token_cleanup_task"] = "sleep"]
                  /\ purges' = purges
             ELSE /\ task' = task
                  /\ purges' = purges + 1
    /\ UNCHANGED <<mainVars, cancelReq, queueVars>>

\* lines 192, 196-197, 189-191: the purge returns or raises; a failure is
\* logged; either way the loop sleeps again.
PurgeDone ==
    /\ ~LoopStopped
    /\ task["token_cleanup_task"] = "purge"
    /\ "token_cleanup_task" \notin cancelReq
    /\ \E ok \in BOOLEAN :
          lastPurge' = IF ok THEN "ok" ELSE "failed"
    /\ task' = [task EXCEPT !["token_cleanup_task"] = "sleep"]
    /\ UNCHANGED <<mainVars, cancelReq, queueVars, purges>>

\* lines 193-195 without the except asyncio.CancelledError clause: the
\* cancellation leaves the coroutine as an error.
ReaperCancelled_Raises ==
    /\ ~LoopStopped
    /\ "token_cleanup_task" \in cancelReq
    /\ task["token_cleanup_task"] \in {"sleep", "purge"}
    /\ cancelReq' = cancelReq \ {"token_cleanup_task"}
    /\ task' = [task EXCEPT !["token_cleanup_task"] = "cancelled"]
    /\ UNCHANGED <<mainVars, queueVars, reaperVars>>

\* lines 193-195: CancelledError in the sleep or in the purge breaks the loop.
ReaperCancelled ==
    /\ ~LoopStopped
    /\ "token_cleanup_task" \in cancelReq
    /\ task["token_cleanup_task"] \in {"sleep", "purge"}
    /\ cancelReq' = cancelReq \ {"token_cleanup_task"}
    /\ task' = [task EXCEPT !["token_cleanup_task"] = "returned"]
    /\ UNCHANGED <<mainVars, queueVars, reaperVars>>

\* ------------------------------------------------- keepalive (ping_server)
\* ping_server ends with an error of its own.
KeepaliveFail ==
    /\ ~LoopStopped
    /\ task["keepalive_task"] = "running"
    /\ "keepalive_task" \notin cancelReq
    /\ task' = [task EXCEPT !["keepalive_task"] = "error"]
    /\ UNCHANGED <<mainVars, cancelReq, queueVars, reaperVars>>

\* The cancellation ends ping_server where it is suspended.
KeepaliveCancelled ==
    /\ ~LoopStopped
    /\ "keepalive_task" \in cancelReq
    /\ task["keepalive_task"] = "running"
    /\ cancelReq' = cancelReq \ {"keepalive_task"}
    /\ task' = [task EXCEPT !["keepalive_task"] = "cancelled"]
    /\ UNCHANGED <<mainVars, queueVars, reaperVars>>

\* ---------------------------------------------------- shutdown (159 - 186)
\* line 164: the order in which the finally block stops the tasks.
ShutdownOrder == <<"keepalive_task", "token_cleanup_task", "request_executor_task">>

\* lines 159-162: idle() returns on the interrupt signal and the finally
\* block begins.
Interrupt ==
    /\ pc = "idle"
    /\ pc' = "cancel"
    /\ ti' = 1
    /\ UNCHANGED <<phases, failed, checkpoint, app_runner, listener, task,
                   cancelReq, queueVars, reaperVars, frameVars>>

\* The for loop at 164 moves to its next task, or on to line 172.
AfterTask ==
    IF ti < Len(ShutdownOrder)
    THEN pc' = "cancel" /\ ti' = ti + 1
    ELSE pc' = "rl_shutdown" /\ ti' = ti

\* lines 164-166: task.cancel(); a task that has ended is left as it is.
CancelTask ==
    /\ pc = "cancel"
    /\ LET t == ShutdownOrder[ti]
       IN  IF task[t] = "none"
           THEN AfterTask /\ UNCHANGED <<cancelReq, sdLog>>
           ELSE /\ pc' = "await"
                /\ ti' = ti
                /\ sdLog' = Append(sdLog, t)
                /\ cancelReq' = IF TaskDone(t) THEN cancelReq ELSE cancelReq \cup {t}
    /\ UNCHANGED <<phases, failed, checkpoint, app_runner, listener, task,
                   queueVars, reaperVars, retry, imp>>

\* lines 167-170 with the finally block going on before the task has ended.
AwaitTask_NoWait ==
    /\ pc = "await"
    /\ LET t == ShutdownOrder[ti]
       IN  IF task[t] = "error"
           THEN pc' = "raised" /\ ti' = ti
           ELSE AfterTask
    /\ UNCHANGED <<phases, failed, checkpoint, app_runner, listener, task,
                   cancelReq, queueVars, reaperVars, frameVars>>

\* lines 167-170: await task.  CancelledError is swallowed; the error of a
\* task that ended with one is raised here and leaves the finally block.
AwaitTask ==
    /\ pc = "await"
    /\ LET t == ShutdownOrder[ti]
       IN  /\ TaskDone(t)
           /\ IF task[t] = "error"
              THEN pc' = "raised" /\ ti' = ti
              ELSE AfterTask
    /\ UNCHANGED <<phases, failed, checkpoint, app_runner, listener, task,
                   cancelReq, queueVars, reaperVars, frameVars>>

\* lines 172-175: await rate_limiter.shutdown(); a failure is logged.
RateLimiterShutdown ==
    /\ pc = "rl_shutdown"
    /\ \E ok \in BOOLEAN : closed' = ok
    /\ pc' = "cleanup_clients"
    /\ sdLog' = Append(sdLog, "rate_limiter.shutdown")
    /\ UNCHANGED <<phases, failed, checkpoint, app_runner, listener, task,
                   cancelReq, queue, requests, status, calls, cur, reaperVars, ti,
                   retry, imp>>

\* lines 177-180: await cleanup_clients(); a failure is logged.
CleanupClients ==
    /\ pc = "cleanup_clients"
    /\ \E ok \in BOOLEAN : pc' = "web_cleanup"
    /\ sdLog' = Append(sdLog, "cleanup_clients")
    /\ UNCHANGED <<phases, failed, checkpoint, app_runner, listener, task,
                   cancelReq, queueVars, reaperVars, ti, retry, imp>>

\* lines 182-186: await app_runner.cleanup() if app_runner is bound; a failure
\* is logged; then start_services returns.
WebCleanup ==
    /\ pc = "web_cleanup"
    /\ \E ok \in BOOLEAN :
          listener' = IF app_runner /\ ok THEN "closed" ELSE listener
    /\ sdLog' = IF app_runner THEN Append(sdLog, "app_runner.cleanup") ELSE sdLog
    /\ pc' = "returned"
    /\ UNCHANGED <<phases, failed, checkpoint, app_runner, task, cancelReq,
                   queueVars, reaperVars, ti, retry, imp>>

\* ------------------------------------------------------------ specification
Next ==
    \/ StartBot \/ GetMe \/ SetCommands \/ FloodWait
    \/ GetRestartMessage \/ EditRestartMessage \/ DeleteRestartMessage
    \/ InitClients \/ ImportPlugins \/ ImportOne \/ ImportReturn \/ CreateExecutor
    \/ WebRunner \/ WebSetup \/ SiteStart \/ CreateTasks
    \/ Enqueue
    \/ ExecNext \/ HandlerReturn \/ HandlerRaise \/ ExecCancelled
    \/ ReaperWake \/ PurgeDone \/ ReaperCancelled
    \/ KeepaliveFail \/ KeepaliveCancelled
    \/ Interrupt \/ CancelTask \/ AwaitTask
    \/ RateLimiterShutdown \/ CleanupClients \/ WebCleanup

Spec == Init /\ [][Next]_vars

\* The steps of start_services up to idle() that end an await or run
\* between two awaits (88 - 143).
StartupStep ==
    \/ StartBot \/ GetMe \/ SetCommands
    \/ GetRestartMessage \/ EditRestartMessage \/ DeleteRestartMessage
    \/ InitClients \/ ImportPlugins \/ ImportOne \/ ImportReturn \/ CreateExecutor
    \/ WebRunner \/ WebSetup \/ SiteStart \/ CreateTasks

\* The event loop keeps running a task that can run: each call start_services
\* awaits ends, the executor takes the next item whenever one is queued
\* (200-201), and a handler that was called returns or raises (215-220).
\* idle() may last for ever.
FairSpec ==
    /\ Spec
    /\ WF_vars(StartupStep)
    /\ WF_vars(ExecNext)
    /\ WF_vars(HandlerReturn \/ HandlerRaise)

\* ------------------------------------------------------------------ claims
Executor == "request_executor_task"

\* The request has left the queue.
Dequeued(id) == status[id] \notin {"none", "queued"}

\* The positions of calls at which a handler was invoked for request id.
CallsOf(id) == {i \in 1..Len(calls) : calls[i].id = id}

InFlight == {id \in Ids : status[id] = "inflight"}

\* C1: handlers are invoked in the order the requests were enqueued (ids are
\* given in enqueue order): of two invocations, the earlier one is for the
\* request enqueued earlier, whatever the kinds.
C1_FifoDispatch ==
    \A i, j \in 1..Len(calls) : i < j => calls[i].id < calls[j].id

\* Two requests of different kinds have both been dispatched.
C1_Witness ==
    /\ Len(calls) = 2
    /\ calls[1].handler # calls[2].handler

\* The handler the claim assigns to a kind.
HandlerOfKind(kind) ==
    IF kind = "link" THEN "link_handler" ELSE "private_receive_handler"

\* A request as the data model has it: a known kind and the other three
\* required fields not null.
WellFormed(req) ==
    /\ req.mapping
    /\ req.handler_type \in {"link", "private"}
    /\ req.bot # None
    /\ req.message # None
    /\ req.user_id # None

\* The same with every required field a value Python takes as true.
WellFormedTruthy(req) ==
    /\ WellFormed(req)
    /\ Truthy(req.bot) /\ Truthy(req.message) /\ Truthy(req.user_id)

DispatchedOnceTo(id) ==
    /\ Cardinality(CallsOf(id)) = 1
    /\ \A i \in CallsOf(id) : calls[i].handler = HandlerOfKind(requests[id].handler_type)

AnyRaiseKeepsLoop ==
    \A id \in Ids :
      status[id] = "inflight" /\ status'[id] \in {"raised", "handler_cancelled"}
      => task'[Executor] = "waiting" /\ queue' = queue

ExceptionKeepsLoop ==
    \A id \in Ids :
      status[id] = "inflight" /\ status'[id] = "raised"
      => task'[Executor] = "waiting" /\ queue' = queue

Malformed(req) ==
    \/ ~req.mapping
    \/ req.handler_type = None
    \/ req.bot = None
    \/ req.message = None
    \/ req.user_id = None

\* C4: a dequeued item that is malformed was passed to no handler and was
\* discarded, and the executor has not ended on it.
C4_MalformedDiscarded ==
    \A id \in Ids :
        Dequeued(id) /\ Malformed(requests[id])
        => /\ CallsOf(id) = {}
           /\ status[id] = "skipped"
           /\ task[Executor] # "error"

\* A step that dequeues a request of unknown kind with its fields present.
UnknownKindStep ==
    \A id \in Ids :
      /\ status[id] = "queued"
      /\ status'[id] # "queued"
      /\ ~Malformed(requests[id])
      /\ requests[id].handler_type \notin {"link", "private"}
      => /\ calls' = calls
         /\ status'[id] = "unknown"
         /\ task'[Executor] = "waiting"

\* C5: when the executor dequeues a request with its four required fields
\* present and a kind other than link and private, no handler is invoked and
\* the executor stays in its loop, waiting for the next request.
C5_UnknownKindDiscarded == [][UnknownKindStep]_vars

\* A request of unknown kind was discarded and the next one was dispatched
\* and completed.
C5_Witness ==
    /\ status[1] = "unknown"
    /\ status[2] = "completed"

\* C6: at most one handler is in flight, and while one is the executor is
\* suspended on it (it neither dequeues nor dispatches).
C6_AtMostOneInFlight ==
    /\ Cardinality(InFlight) <= 1
    /\ \A id \in InFlight : task[Executor] = "handling" /\ cur = id

\* A handler is in flight while another request waits in the queue, the
\* reaper is purging and the keepalive runs.
C6_Witness ==
    /\ InFlight # {}
    /\ queue # <<>>
    /\ task["token_cleanup_task"] = "purge"
    /\ task["keepalive_task"] = "running"

\* A step taken with the executor's cancellation pending invokes no handler
\* and leaves a handler in flight running or lets it end by itself.
CancelSparesHandler ==
    Executor \in cancelReq
    => /\ calls' = calls
       /\ \A id \in Ids :
             status[id] = "inflight"
             => status'[id] \in {"inflight", "completed", "raised"}

\* C7: once the executor's cancellation is requested, the handler in flight
\* runs to its own end (it returns or raises) and no further handler is
\* invoked.
C7_InFlightRunsToCompletion == [][CancelSparesHandler]_vars

\* C8: once rate_limiter.shutdown() has been called in the shutdown
\* sequence, every request enqueued before it has been dequeued by the
\* executor and none was cut short: nothing is left in the queue.
C8_DrainedAtShutdown ==
    (/\ pc \in {"cleanup_clients", "web_cleanup", "returned"}
     /\ \A id \in Ids : status[id] \notin {"crashed", "handler_cancelled"})
    => /\ queue = <<>>
       /\ \A id \in Ids : status[id] \notin {"queued", "interrupted"}

\* The startup phases in the order the claim gives.
StartupOrder ==
    << "auth", "identity", "commands", "checkpoint", "clients", "plugins",
       "executor", "listener", "keepalive", "reaper" >>

IsPrefix(s, t) ==
    /\ Len(s) <= Len(t)
    /\ \A i \in 1..Len(s) : s[i] = t[i]

Begun(phase) == \E i \in 1..Len(phases) : phases[i] = phase

\* C9: the phases begin in the fixed order; a phase that failed fatally is
\* the last one begun; the executor exists only after plugin import, with
\* authentication and client initialization passed; keepalive and reaper
\* exist only once the listener has started.
C9_StartupOrder ==
    /\ IsPrefix(phases, StartupOrder)
    /\ failed # "none" => phases # <<>> /\ phases[Len(phases)] = failed
    /\ task[Executor] # "none" => Begun("plugins") /\ failed \notin {"auth", "clients"}
    /\ \A t \in {"keepalive_task", "token_cleanup_task"} :
          task[t] # "none" => listener \in {"started", "closed"} /\ task[Executor] # "none"

\* Every phase has begun and startup has reached idle().
C9_Witness ==
    /\ pc = "idle"
    /\ phases = StartupOrder

\* C10: when startup has aborted on a startup-fatal failure, every task
\* startup created has terminated.
C10_NoTaskLeftRunning ==
    pc = "aborted" /\ failed \in {"auth", "identity", "clients", "listener"}
    => \A t \in Tasks : task[t] = "none" \/ TaskDone(t)

\* The steps of the finally block, in the order of lines 164-186.
ShutdownSteps ==
    ShutdownOrder \o <<"rate_limiter.shutdown", "cleanup_clients", "app_runner.cleanup">>

\* C11: once the executor task has been created, start_services ends only
\* after the whole shutdown sequence has run.
C11_ShutdownCompletes ==
    LoopStopped /\ Begun("executor") => sdLog = ShutdownSteps

\* C12: once the shutdown sequence has begun, start_services ends only after
\* every step of it has been attempted, whatever failed before.
C12_EveryPhaseAttempted ==
    LoopStopped /\ sdLog # <<>> => sdLog = ShutdownSteps

\* C18: the finally block stops keepalive, token reaper and executor in that
\* order, then calls rate_limiter.shutdown(), cleanup_clients() and the
\* listener's cleanup; every task whose turn has passed has terminated
\* before the next step begins.
C18_ShutdownOrder ==
    /\ IsPrefix(sdLog, ShutdownSteps)
    /\ \A i \in 1..Len(sdLog) : \A j \in 1..Len(ShutdownOrder) :
          j < i => TaskDone(ShutdownOrder[j])

\* The whole shutdown sequence has run and start_services has returned.
C18_Witness ==
    /\ pc = "returned"
    /\ sdLog = ShutdownSteps

\* A step taken while the restart checkpoint is read, used or deleted does
\* not abort startup.
C13_Step ==
    pc \in {"get_restart", "edit_restart", "delete_restart"} => pc' # "aborted"

\* C13: no step of the restart-checkpoint handling (reading the checkpoint,
\* editing the message, deleting the checkpoint) aborts startup.
C13_CheckpointNeverAborts == [][C13_Step]_vars

\* C19: once startup is past the checkpoint phase (client initialization has
\* begun), no checkpoint is left in the store.
C19_CheckpointConsumed ==
    Begun("clients") => ~checkpoint

Reaper == "token_cleanup_task"

\* A step taken while the sleeping reaper has a cancellation pending, or
\* after the reaper has ended, makes no purge call; the cancellation ends
\* the task by a plain return.
C14_Step ==
    /\ (Reaper \in cancelReq /\ task[Reaper] = "sleep")
       => purges' = purges /\ task'[Reaper] \in {"sleep", "returned"}
    /\ TaskDone(Reaper) => purges' = purges /\ task'[Reaper] = task[Reaper]

\* C14: cancelling the token reaper in its sleep makes it leave its loop and
\* return without an error, and cleanup_expired_tokens is not called after
\* the cancellation.
C14_CancelInSleep == [][C14_Step]_vars

\* The reaper was cancelled in its first sleep: it has returned and no purge
\* was ever called.
C14_Witness ==
    /\ task[Reaper] = "returned"
    /\ purges = 0
    /\ Reaper \notin cancelReq

\* A purge call begins only in a step that ends a sleep, and a step in which
\* a purge fails puts the reaper back to sleep without another call.
C15_Step ==
    /\ purges' # purges => task[Reaper] = "sleep" /\ purges' = purges + 1
    /\ (task[Reaper] = "purge" /\ lastPurge' = "failed" /\ Reaper \notin cancelReq)
       => task'[Reaper] \in {"purge", "sleep"}
    /\ (task[Reaper] = "purge" /\ task'[Reaper] # "purge" /\ Reaper \notin cancelReq)
       => task'[Reaper] = "sleep"

C17_Step ==
    (retry'.call = pc /\ retry'.floods = CallRecord(pc).floods + 1)
    => /\ pc' = pc
       /\ failed' = failed
       /\ retry'.owed > CallRecord(pc).owed
       /\ retry'.slept - CallRecord(pc).slept >= retry'.owed - CallRecord(pc).owed

\* C17: a flood-wait rejection of a call made through handle_flood_wait at
\* startup is waited out for at least retry_after and never reaches
\* start_services: startup does not abort on it.
C17_FloodWaitAbsorbed == [][C17_Step]_vars

\* StreamBot.start was rejected with a flood wait, waited out, and has
\* returned: startup is at get_me.
C17_Witness ==
    /\ pc = "get_me"
    /\ retry.call = "start"
    /\ retry.floods >= 1
    /\ retry.slept >= retry.owed
    /\ failed = "none"

\* While import_plugins runs, every file tried so far counts as loaded or as
\* failed; it ends only with every file tried, and then the executor is
\* created; it never ends startup.
C20_Step ==
    pc \in {"import_plugins", "import_loop"}
    => /\ imp.success_count + imp.failed_plugins = imp.i
       /\ pc' \in {"import_plugins", "import_loop", "create_executor"}
       /\ failed' = failed
       /\ (pc = "import_loop" /\ pc' = "create_executor") => imp.i = imp.plugins

\* C20: a plugin that fails to import is counted as failed and skipped;
\* import_plugins goes on to every remaining file, returns with successes
\* plus failures equal to the number of files, and startup goes on to create
\* the executor task.
C20_PluginFailureSkipped == [][C20_Step]_vars

\* Two plugin files, one failed and one loaded: import_plugins is about to
\* return 1.
C20_Witness ==
    /\ pc = "import_loop"
    /\ imp.plugins = 2
    /\ imp.i = imp.plugins
    /\ imp.failed_plugins = 1
    /\ imp.success_count = 1

\* The executor is not there to dequeue: it was not created yet, shutdown
\* has begun, it was asked to stop or has stopped on a cancellation (its own
\* or a handler's), or the event loop is over.
ExecutorExcused ==
    \/ LoopStopped
    \/ pc \in {"cancel", "await", "rl_shutdown", "cleanup_clients", "web_cleanup"}
    \/ Executor \in cancelReq
    \/ task[Executor] \in {"none", "returned", "cancelled"}

\* C16: under weak fairness of the executor and with every handler call
\* ending, a request in the queue is eventually dequeued, unless the executor
\* is cancelled or not running.
C16_NoStarvation ==
    \A id \in Ids :
        (status[id] = "queued") ~> (Dequeued(id) \/ ExecutorExcused)

\* The same, with the executor also excused once an item that is no mapping
\* has ended it (the failure of C4).
C16_NoStarvationButCrash ==
    \A id \in Ids :
        (status[id] = "queued")
            ~> (Dequeued(id) \/ ExecutorExcused \/ task[Executor] = "error")

====
